---- MODULE Spec2Model ----
(***************************************************************************)
(* Model of the estimate calculator of asphalt-guardian-suite              *)
(* (src/src/components/ProjectManagement.tsx, component EstimateCalculator)*)
(*                                                                         *)
(* JavaScript numbers are modelled as exact decimals with eight fractional *)
(* digits.  A decimal is a record [hi, lo] that stands for                 *)
(*      (hi * Base + lo) * 10^-8        with 0 <= lo < Base,               *)
(* so hi counts thousandths and lo the five digits below them.  Every      *)
(* product and quotient the calculator forms on integer measurements is    *)
(* exact at this resolution; IEEE rounding of the last binary digit is not *)
(* modelled.                                                               *)
(***************************************************************************)
EXTENDS Integers, Sequences, FiniteSets, TLC

VARIABLES
    estimateData,         \* useState<EstimateData>, the form fields
    calculatedEstimate,   \* useState<any>(null), the stored estimate
    estimateLog,          \* history: for every generateEstimate call so far, the
                          \* estimateData it read and the estimate it stored
    now,                  \* the wall clock read by new Date()
    estimateDataB,        \* a second, independently mounted EstimateCalculator
    calculatedEstimateB,
    estimateLogB,
    projects,             \* useState<Project[]>([]) of ProjectManagement
    milestones,           \* useState<Milestone[]>([])
    selectedProject,      \* useState<Project | null>(null)
    isCreatingProject,    \* useState(false), the "Create New Project" dialog
    newProject,           \* the fields of the dialog
    dbProjects,           \* the rows of the backend table "projects", newest first
    session,              \* the user supabase.auth.getUser() reports, or null
    inflight,             \* the asynchronous calls that are awaiting their response
    issued,               \* number of asynchronous calls started by user events
    lastToast,            \* description of the last toast shown
    milestoneFetchFailed  \* history: some fetchMilestones call has ended in its catch

calcVars == <<estimateData, calculatedEstimate, estimateLog, now,
              estimateDataB, calculatedEstimateB, estimateLogB>>

pmVars == <<projects, milestones, selectedProject, isCreatingProject, newProject,
            dbProjects, session, inflight, issued, lastToast, milestoneFetchFailed>>

vars == <<calcVars, pmVars>>

(***************************************************************************)
(* Bounds                                                                  *)
(***************************************************************************)
\* number of user events (edits, button presses) in one session
MaxTime == 4

\* longest crack length typed in the severity comparison
MaxCrackLength == 150

\* number of asynchronous calls the user starts in one ProjectManagement session
MaxRequests == 2

(***************************************************************************)
(* Exact decimal arithmetic                                                *)
(***************************************************************************)
Base == 10^5

Norm(h, l) == [hi |-> h + (l \div Base), lo |-> l % Base]

\* the integer n as a decimal
DInt(n) == [hi |-> n * 1000, lo |-> 0]

DZero == DInt(0)

DAdd(a, b) == Norm(a.hi + b.hi, a.lo + b.lo)

DSub(a, b) == Norm(a.hi - b.hi, a.lo - b.lo)

\* a * k for an integer k
DMulInt(a, k) == Norm(a.hi * k, a.lo * k)

\* a / k for an integer k > 0 (exact whenever the quotient has at most eight
\* fractional digits)
DDivInt(a, k) ==
    LET r == a.hi % k
    IN  [hi |-> a.hi \div k, lo |-> (r * Base + a.lo) \div k]

\* a * (num / den): multiplication by the decimal literal num/den
DMulRatio(a, ratio) == DDivInt(DMulInt(a, ratio[1]), ratio[2])

DLess(a, b) == a.hi < b.hi \/ (a.hi = b.hi /\ a.lo < b.lo)

DLeq(a, b) == a = b \/ DLess(a, b)

DIsPos(a) == DLess(DZero, a)

DNonNeg(a) == DLeq(DZero, a)

\* Math.max(a, b)
DMax(a, b) == IF DLess(a, b) THEN b ELSE a

\* Math.ceil(a) as an integer
DCeil(a) ==
    IF a.hi % 1000 = 0 /\ a.lo = 0 THEN a.hi \div 1000 ELSE (a.hi \div 1000) + 1

\* ceiling of the integer quotient x / k, k > 0
CeilDiv(x, k) == -((-x) \div k)

\* Math.ceil(a / k) for an integer k > 0: ceil(a / k) = ceil(ceil(a) / k)
DCeilDiv(a, k) == CeilDiv(DCeil(a), k)

(***************************************************************************)
(* Configuration tables                                                    *)
(***************************************************************************)
\* decimal literals are written <<numerator, denominator>>
BUSINESS_CONFIG == [blendedLaborRate |-> 45]

MATERIAL_COSTS ==
    [sealMasterPMM   |-> <<379, 100>>,     \* 3.79 per gallon
     sand50lb        |-> 10,               \* 10.00 per bag
     prepSeal5gal    |-> 50,               \* 50.00 per bucket
     fastDry5gal     |-> 50,               \* 50.00 per bucket
     crackMaster30lb |-> <<4495, 100>>]    \* 44.95 per box

APPLICATION_RATES ==
    [firstCoat       |-> <<144, 10000>>,   \* 0.0144 gal/sq ft
     additionalCoats |-> <<111, 10000>>,   \* 0.0111 gal/sq ft
     sandMixRatio    |-> 300,              \* lbs per 100 gallons
     waterRatio      |-> <<20, 100>>]      \* 0.20

OverheadRate == <<15, 100>>                \* subtotal * 0.15

FuelPrice == <<450, 100>>                  \* 4.50 per gallon

(***************************************************************************)
(* calculateMaterials                                                      *)
(***************************************************************************)
\* variant: the scale is upside down, light cracking gets the largest multiplier
crackMultiplierInverted(crackSeverity) ==
    IF crackSeverity = "severe" THEN <<10, 10>>
    ELSE IF crackSeverity = "moderate" THEN <<12, 10>>
    ELSE <<15, 10>>

\* variant: the severe and moderate multipliers are exchanged
crackMultiplierSwapped(crackSeverity) ==
    IF crackSeverity = "severe" THEN <<12, 10>>
    ELSE IF crackSeverity = "moderate" THEN <<15, 10>>
    ELSE <<10, 10>>

\* crackSeverity === 'severe' ? 1.5 : crackSeverity === 'moderate' ? 1.2 : 1.0
crackMultiplier(crackSeverity) ==
    IF crackSeverity = "severe" THEN <<15, 10>>
    ELSE IF crackSeverity = "moderate" THEN <<12, 10>>
    ELSE <<10, 10>>

\* variant: additional coats are applied at the first-coat rate
totalPMMFlatRate(squareFootage, numberOfCoats) ==
    LET firstCoatGallons == DMulRatio(DInt(squareFootage), APPLICATION_RATES.firstCoat)
        additionalCoatsGallons ==
            DMulInt(DMulRatio(DInt(squareFootage), APPLICATION_RATES.firstCoat),
                    numberOfCoats - 1)
    IN  IF numberOfCoats > 1 THEN DAdd(firstCoatGallons, additionalCoatsGallons)
        ELSE firstCoatGallons

\* variant: every coat, the first included, also counts as an additional coat
totalPMMEveryCoat(squareFootage, numberOfCoats) ==
    LET firstCoatGallons == DMulRatio(DInt(squareFootage), APPLICATION_RATES.firstCoat)
        additionalCoatsGallons ==
            DMulInt(DMulRatio(DInt(squareFootage), APPLICATION_RATES.additionalCoats),
                    numberOfCoats)
    IN  DAdd(firstCoatGallons, additionalCoatsGallons)

\* gallons of concentrate for squareFootage > 0
totalPMM(squareFootage, numberOfCoats) ==
    LET firstCoatGallons == DMulRatio(DInt(squareFootage), APPLICATION_RATES.firstCoat)
        additionalCoatsGallons ==
            DMulInt(DMulRatio(DInt(squareFootage), APPLICATION_RATES.additionalCoats),
                    numberOfCoats - 1)
    IN  IF numberOfCoats > 1 THEN DAdd(firstCoatGallons, additionalCoatsGallons)
        ELSE firstCoatGallons

\* variant: sand is stored as the pounds in whole 50 lb bags
materialQuantitiesRoundedSand(ed) ==
    LET pmm == totalPMM(ed.squareFootage, ed.numberOfCoats)
        seal == ed.squareFootage > 0
        sandPounds == DMulInt(DDivInt(pmm, 100), APPLICATION_RATES.sandMixRatio)
    IN  [sealMasterPMM |-> IF seal THEN pmm ELSE DZero,
         sand          |-> IF seal THEN DInt(DCeilDiv(sandPounds, 50) * 50) ELSE DZero,
         water         |-> IF seal THEN DMulRatio(pmm, APPLICATION_RATES.waterRatio)
                           ELSE DZero,
         prepSeal      |-> IF ed.oilSpotArea > 0
                           THEN DInt(CeilDiv(ed.oilSpotArea, 175))
                           ELSE DZero,
         fastDry       |-> IF seal THEN DMulInt(DDivInt(pmm, 125), 2) ELSE DZero,
         crackMaster   |-> IF ed.linearFootage > 0
                           THEN DInt(DCeilDiv(DMulRatio(DInt(ed.linearFootage),
                                                        crackMultiplier(ed.crackSeverity)),
                                              100))
                           ELSE DZero]

\* variant: at least one 5-gallon pail of concentrate is always ordered
materialQuantitiesMinimumPail(ed) ==
    LET pmm == IF ed.squareFootage > 0
               THEN DMax(totalPMM(ed.squareFootage, ed.numberOfCoats), DInt(5))
               ELSE DInt(5)
    IN  [sealMasterPMM |-> pmm,
         sand          |-> DMulInt(DDivInt(pmm, 100), APPLICATION_RATES.sandMixRatio),
         water         |-> DMulRatio(pmm, APPLICATION_RATES.waterRatio),
         prepSeal      |-> IF ed.oilSpotArea > 0
                           THEN DInt(CeilDiv(ed.oilSpotArea, 175))
                           ELSE DZero,
         fastDry       |-> DMulInt(DDivInt(pmm, 125), 2),
         crackMaster   |-> IF ed.linearFootage > 0
                           THEN DInt(DCeilDiv(DMulRatio(DInt(ed.linearFootage),
                                                        crackMultiplier(ed.crackSeverity)),
                                              100))
                           ELSE DZero]

\* the materials object before totalMaterialCost is filled in
materialQuantities(ed) ==
    LET pmm == totalPMM(ed.squareFootage, ed.numberOfCoats)
        seal == ed.squareFootage > 0
    IN  [sealMasterPMM |-> IF seal THEN pmm ELSE DZero,
         sand          |-> IF seal
                           THEN DMulInt(DDivInt(pmm, 100), APPLICATION_RATES.sandMixRatio)
                           ELSE DZero,
         water         |-> IF seal THEN DMulRatio(pmm, APPLICATION_RATES.waterRatio)
                           ELSE DZero,
         prepSeal      |-> IF ed.oilSpotArea > 0
                           THEN DInt(CeilDiv(ed.oilSpotArea, 175))
                           ELSE DZero,
         fastDry       |-> IF seal THEN DMulInt(DDivInt(pmm, 125), 2) ELSE DZero,
         crackMaster   |-> IF ed.linearFootage > 0
                           THEN DInt(DCeilDiv(DMulRatio(DInt(ed.linearFootage),
                                                        crackMultiplier(ed.crackSeverity)),
                                              100))
                           ELSE DZero]

\* variant: primer gallons are converted to 5-gallon buckets before pricing
materialCostsPerBucket(m) ==
    [sealMasterPMM |-> DMulRatio(m.sealMasterPMM, MATERIAL_COSTS.sealMasterPMM),
     sand          |-> DInt(DCeilDiv(m.sand, 50) * MATERIAL_COSTS.sand50lb),
     prepSeal      |-> DInt(DCeilDiv(m.prepSeal, 5) * MATERIAL_COSTS.prepSeal5gal),
     fastDry       |-> DInt(DCeilDiv(m.fastDry, 5) * MATERIAL_COSTS.fastDry5gal),
     crackMaster   |-> DMulRatio(m.crackMaster, MATERIAL_COSTS.crackMaster30lb)]

\* variant: part bags and part buckets are priced pro rata
materialCostsProRata(m) ==
    [sealMasterPMM |-> DMulRatio(m.sealMasterPMM, MATERIAL_COSTS.sealMasterPMM),
     sand          |-> DMulInt(DDivInt(m.sand, 50), MATERIAL_COSTS.sand50lb),
     prepSeal      |-> DMulInt(m.prepSeal, MATERIAL_COSTS.prepSeal5gal),
     fastDry       |-> DMulInt(DDivInt(m.fastDry, 5), MATERIAL_COSTS.fastDry5gal),
     crackMaster   |-> DMulRatio(m.crackMaster, MATERIAL_COSTS.crackMaster30lb)]

\* const costs = { ... }
materialCosts(m) ==
    [sealMasterPMM |-> DMulRatio(m.sealMasterPMM, MATERIAL_COSTS.sealMasterPMM),
     sand          |-> DInt(DCeilDiv(m.sand, 50) * MATERIAL_COSTS.sand50lb),
     prepSeal      |-> DMulInt(m.prepSeal, MATERIAL_COSTS.prepSeal5gal),
     fastDry       |-> DInt(DCeilDiv(m.fastDry, 5) * MATERIAL_COSTS.fastDry5gal),
     crackMaster   |-> DMulRatio(m.crackMaster, MATERIAL_COSTS.crackMaster30lb)]

\* variant: the last line cost is left out of the sum
sumCostsFirstFour(c) ==
    DAdd(DAdd(DAdd(DAdd(DZero, c.sealMasterPMM), c.sand), c.prepSeal), c.fastDry)

\* Object.values(costs).reduce((sum, cost) => sum + cost, 0)
sumCosts(c) ==
    DAdd(DAdd(DAdd(DAdd(DAdd(DZero, c.sealMasterPMM), c.sand), c.prepSeal), c.fastDry),
         c.crackMaster)

calculateMaterials(ed) ==
    LET m == materialQuantities(ed)
        c == materialCosts(m)
    IN  [materials |-> [sealMasterPMM     |-> m.sealMasterPMM,
                        sand              |-> m.sand,
                        water             |-> m.water,
                        prepSeal          |-> m.prepSeal,
                        fastDry           |-> m.fastDry,
                        crackMaster       |-> m.crackMaster,
                        totalMaterialCost |-> sumCosts(c)],
         costs     |-> c]

(***************************************************************************)
(* calculateLaborAndEquipment                                              *)
(***************************************************************************)
\* variant: the sealcoating hours are charged once per coat
rawLaborHoursPerCoat(ed) ==
    LET sealcoating == IF ed.squareFootage > 0
                       THEN DMulInt(DMulInt(DDivInt(DInt(ed.squareFootage), 1000), 2),
                                    ed.numberOfCoats)
                       ELSE DZero
        crackFilling == IF ed.linearFootage > 0
                        THEN DDivInt(DInt(ed.linearFootage), 100)
                        ELSE DZero
    IN  DAdd(sealcoating, crackFilling)

\* variant: crack filling hours grow with the severity multiplier
rawLaborHoursBySeverity(ed) ==
    LET sealcoating == IF ed.squareFootage > 0
                       THEN DMulInt(DDivInt(DInt(ed.squareFootage), 1000), 2)
                       ELSE DZero
        crackFilling == IF ed.linearFootage > 0
                        THEN DMulRatio(DDivInt(DInt(ed.linearFootage), 100),
                                       crackMultiplier(ed.crackSeverity))
                        ELSE DZero
    IN  DAdd(sealcoating, crackFilling)

\* hours before the 4-hour minimum
rawLaborHours(ed) ==
    LET sealcoating == IF ed.squareFootage > 0
                       THEN DMulInt(DDivInt(DInt(ed.squareFootage), 1000), 2)
                       ELSE DZero
        crackFilling == IF ed.linearFootage > 0
                        THEN DDivInt(DInt(ed.linearFootage), 100)
                        ELSE DZero
    IN  DAdd(sealcoating, crackFilling)

\* variant: line striping is charged per parking stall
calculateLaborAndEquipmentStriping(ed) ==
    LET laborHours == DMax(rawLaborHours(ed), DInt(4))
        laborCost == DMulInt(DMulInt(laborHours, BUSINESS_CONFIG.blendedLaborRate), 3)
        equipmentCost == DMulInt(laborHours, 50)
        roundTripMiles == ed.travelDistance * 2
        fuelCost == DDivInt(DMulRatio(DInt(roundTripMiles), FuelPrice), 15)
        stripingCost == DInt(ed.parkingStalls * 5)
    IN  [laborHours    |-> laborHours,
         laborCost     |-> laborCost,
         equipmentCost |-> equipmentCost,
         fuelCost      |-> fuelCost,
         totalLabor    |-> DAdd(DAdd(DAdd(laborCost, equipmentCost), fuelCost),
                                stripingCost)]

\* variant: the first 15 miles each way are not charged, without a floor at zero
calculateLaborAndEquipmentFreeMiles(ed) ==
    LET laborHours == DMax(rawLaborHours(ed), DInt(4))
        laborCost == DMulInt(DMulInt(laborHours, BUSINESS_CONFIG.blendedLaborRate), 3)
        equipmentCost == DMulInt(laborHours, 50)
        roundTripMiles == (ed.travelDistance - 15) * 2
        fuelCost == DDivInt(DMulRatio(DInt(roundTripMiles), FuelPrice), 15)
    IN  [laborHours    |-> laborHours,
         laborCost     |-> laborCost,
         equipmentCost |-> equipmentCost,
         fuelCost      |-> fuelCost,
         totalLabor    |-> DAdd(DAdd(laborCost, equipmentCost), fuelCost)]

\* variant: fuel is charged for the one-way distance only
calculateLaborAndEquipmentOneWay(ed) ==
    LET laborHours == DMax(rawLaborHours(ed), DInt(4))
        laborCost == DMulInt(DMulInt(laborHours, BUSINESS_CONFIG.blendedLaborRate), 3)
        equipmentCost == DMulInt(laborHours, 50)
        roundTripMiles == ed.travelDistance
        fuelCost == DDivInt(DMulRatio(DInt(roundTripMiles), FuelPrice), 15)
    IN  [laborHours    |-> laborHours,
         laborCost     |-> laborCost,
         equipmentCost |-> equipmentCost,
         fuelCost      |-> fuelCost,
         totalLabor    |-> DAdd(DAdd(laborCost, equipmentCost), fuelCost)]

calculateLaborAndEquipment(ed) ==
    LET laborHours == DMax(rawLaborHours(ed), DInt(4))
        laborCost == DMulInt(DMulInt(laborHours, BUSINESS_CONFIG.blendedLaborRate), 3)
        equipmentHours == laborHours
        equipmentCost == DMulInt(equipmentHours, 50)
        roundTripMiles == ed.travelDistance * 2
        \* (roundTripMiles / 15) * 4.50, the product taken before the quotient
        fuelCost == DDivInt(DMulRatio(DInt(roundTripMiles), FuelPrice), 15)
    IN  [laborHours    |-> laborHours,
         laborCost     |-> laborCost,
         equipmentCost |-> equipmentCost,
         fuelCost      |-> fuelCost,
         totalLabor    |-> DAdd(DAdd(laborCost, equipmentCost), fuelCost)]

(***************************************************************************)
(* generateEstimate                                                        *)
(***************************************************************************)
\* variant: the profit is taken on subtotal plus overhead
buildEstimateCompounded(ed, ts) ==
    LET mc == calculateMaterials(ed)
        labor == calculateLaborAndEquipment(ed)
        subtotal == DAdd(mc.materials.totalMaterialCost, labor.totalLabor)
        overhead == DMulRatio(subtotal, OverheadRate)
        profit == DMulRatio(DAdd(subtotal, overhead), <<ed.profitMargin, 100>>)
        total == DAdd(DAdd(subtotal, overhead), profit)
    IN  [materials |-> mc.materials,
         costs     |-> mc.costs,
         labor     |-> labor,
         subtotal  |-> subtotal,
         overhead  |-> overhead,
         profit    |-> profit,
         total     |-> total,
         timestamp |-> ts]

\* variant: the profit is taken off the price instead of added to it
buildEstimateDiscount(ed, ts) ==
    LET mc == calculateMaterials(ed)
        labor == calculateLaborAndEquipment(ed)
        subtotal == DAdd(mc.materials.totalMaterialCost, labor.totalLabor)
        overhead == DMulRatio(subtotal, OverheadRate)
        profit == DMulRatio(subtotal, <<ed.profitMargin, 100>>)
        total == DSub(DAdd(subtotal, overhead), profit)
    IN  [materials |-> mc.materials,
         costs     |-> mc.costs,
         labor     |-> labor,
         subtotal  |-> subtotal,
         overhead  |-> overhead,
         profit    |-> profit,
         total     |-> total,
         timestamp |-> ts]

\* the estimate object built from the form fields ed at time ts
buildEstimate(ed, ts) ==
    LET mc == calculateMaterials(ed)
        labor == calculateLaborAndEquipment(ed)
        subtotal == DAdd(mc.materials.totalMaterialCost, labor.totalLabor)
        overhead == DMulRatio(subtotal, OverheadRate)
        profit == DMulRatio(subtotal, <<ed.profitMargin, 100>>)
        total == DAdd(DAdd(subtotal, overhead), profit)
    IN  [materials |-> mc.materials,
         costs     |-> mc.costs,
         labor     |-> labor,
         subtotal  |-> subtotal,
         overhead  |-> overhead,
         profit    |-> profit,
         total     |-> total,
         timestamp |-> ts]

\* useState<any>(null)
Null == [isNull |-> TRUE]

\* an estimate with its timestamp blanked, for comparisons "except timestamp"
SansTimestamp(e) == IF e = Null THEN Null ELSE [e EXCEPT !.timestamp = 0]

(***************************************************************************)
(* The results card                                                        *)
(***************************************************************************)
\* variant: the three cost-guarded lines are rendered whenever the cost exists
materialLinesUnguarded(e) ==
    (IF DIsPos(e.materials.sealMasterPMM) THEN {"sealMasterPMM"} ELSE {})
        \cup (IF DIsPos(e.materials.sand) THEN {"sand"} ELSE {})
        \cup (IF DNonNeg(e.costs.prepSeal) THEN {"prepSeal"} ELSE {})
        \cup (IF DNonNeg(e.costs.fastDry) THEN {"fastDry"} ELSE {})
        \cup (IF DNonNeg(e.costs.crackMaster) THEN {"crackMaster"} ELSE {})

\* the lines of "Materials & Supplies" rendered for the estimate e
materialLines(e) ==
    (IF DIsPos(e.materials.sealMasterPMM) THEN {"sealMasterPMM"} ELSE {})
        \cup (IF DIsPos(e.materials.sand) THEN {"sand"} ELSE {})
        \cup (IF DIsPos(e.costs.prepSeal) THEN {"prepSeal"} ELSE {})
        \cup (IF DIsPos(e.costs.fastDry) THEN {"fastDry"} ELSE {})
        \cup (IF DIsPos(e.costs.crackMaster) THEN {"crackMaster"} ELSE {})

\* {calculatedEstimate && ( ... )}: the material lines on screen
shownMaterialLines(estimate) ==
    IF estimate = Null THEN {} ELSE materialLines(estimate)

\* "Fuel & Travel ({estimateData.travelDistance * 2} miles)": the label is
\* computed from the form fields at render time
fuelLabelMiles(ed) == ed.travelDistance * 2

\* "Profit ({estimateData.profitMargin}%)": likewise read from the form fields
profitLabelPercent(ed) == ed.profitMargin

(***************************************************************************)
(* The form                                                                *)
(***************************************************************************)
ProjectTypes == {"sealcoating", "crack-filling", "patching", "line-striping", "combination"}

CoatOptions == {1, 2, 3}

Severities == {"light", "moderate", "severe"}

InitialEstimateData ==
    [projectType     |-> "",
     squareFootage   |-> 0,
     linearFootage   |-> 0,
     numberOfCoats   |-> 1,
     crackSeverity   |-> "light",
     oilSpotArea     |-> 0,
     parkingStalls   |-> 0,
     clientName      |-> "",
     jobSiteAddress  |-> "",
     travelDistance  |-> 0,
     profitMargin    |-> 20,
     additionalNotes |-> ""]

\* setEstimateData(prev => ({ ...prev, [field]: value }))
handleInputChange(prev, field, value) == [prev EXCEPT ![field] = value]

(***************************************************************************)
(* parseInt on the text of an input element.  A text is a sequence of      *)
(* one-character strings.                                                  *)
(***************************************************************************)
DigitChars == {"0", "1", "2", "3", "4", "5", "6", "7", "8", "9"}

DigitValue(c) ==
    CASE c = "0" -> 0 [] c = "1" -> 1 [] c = "2" -> 2 [] c = "3" -> 3 [] c = "4" -> 4
      [] c = "5" -> 5 [] c = "6" -> 6 [] c = "7" -> 7 [] c = "8" -> 8 [] c = "9" -> 9

RECURSIVE trimStart(_)
trimStart(text) ==
    IF text # <<>> /\ Head(text) = " " THEN trimStart(Tail(text)) ELSE text

\* the value of the longest prefix of decimal digits, continuing from acc
RECURSIVE parseDigits(_, _)
parseDigits(text, acc) ==
    IF text = <<>> \/ Head(text) \notin DigitChars THEN acc
    ELSE parseDigits(Tail(text), acc * 10 + DigitValue(Head(text)))

NaN == [isNaN |-> TRUE, value |-> 0]

\* parseInt(text), radix 10: leading blanks, an optional sign, then digits up to
\* the first other character; NaN when no digit is found
parseInt(text) ==
    LET s == trimStart(text)
        signed == s # <<>> /\ Head(s) \in {"+", "-"}
        body == IF signed THEN Tail(s) ELSE s
        magnitude == parseDigits(body, 0)
    IN  IF body = <<>> \/ Head(body) \notin DigitChars THEN NaN
        ELSE [isNaN |-> FALSE,
              value |-> IF signed /\ Head(s) = "-" THEN -magnitude ELSE magnitude]

\* variant: every field falls back to the profit-margin default
orDefaultTwenty(parsed, fallback) ==
    IF parsed.isNaN \/ parsed.value = 0 THEN 20 ELSE parsed.value

\* variant: parsed ?? fallback, only a missing number takes the fallback
orDefaultNullish(parsed, fallback) ==
    IF parsed.isNaN THEN fallback ELSE parsed.value

\* parsed || fallback: NaN and 0 are falsy
orDefault(parsed, fallback) ==
    IF parsed.isNaN \/ parsed.value = 0 THEN fallback ELSE parsed.value

(***************************************************************************)
(* What the user types or picks                                            *)
(***************************************************************************)
SquareFootageTexts ==
    {<<>>, <<"0">>, <<"a">>, <<"-", "5">>, <<"1", "0", "0", "0">>}

LinearFootageTexts == {<<>>, <<"a">>, <<"-", "5">>, <<"5", "0", "0">>}

OilSpotAreaTexts == {<<>>, <<"a">>, <<"2", "0", "0">>}

TravelDistanceTexts == {<<>>, <<"a">>, <<"-", "5">>, <<"1", "5">>}

ProfitMarginTexts ==
    {<<>>, <<"a">>, <<"0">>, <<"-", "5">>, <<"3", "0">>, <<"1", "5", "0">>}

ParkingStallsTexts == {<<>>, <<"a">>, <<"1", "2", ".", "7">>}

CoatTexts == {<<"1">>, <<"2">>, <<"3">>}

FreeTexts == {"", "Acme"}

\* every (field, value) pair an onChange / onValueChange callback can pass to
\* handleInputChange
InputEvents ==
    {<<"projectType", v>> : v \in ProjectTypes}
    \cup {<<"clientName", v>> : v \in FreeTexts}
    \cup {<<"squareFootage", orDefault(parseInt(x), 0)>> : x \in SquareFootageTexts}
    \cup {<<"linearFootage", orDefault(parseInt(x), 0)>> : x \in LinearFootageTexts}
    \cup {<<"numberOfCoats", parseInt(x).value>> : x \in CoatTexts}
    \cup {<<"crackSeverity", v>> : v \in Severities}
    \cup {<<"oilSpotArea", orDefault(parseInt(x), 0)>> : x \in OilSpotAreaTexts}
    \cup {<<"jobSiteAddress", v>> : v \in FreeTexts}
    \cup {<<"travelDistance", orDefault(parseInt(x), 0)>> : x \in TravelDistanceTexts}
    \cup {<<"profitMargin", orDefault(parseInt(x), 20)>> : x \in ProfitMarginTexts}
    \cup {<<"parkingStalls", orDefault(parseInt(x), 0)>> : x \in ParkingStallsTexts}
    \cup {<<"additionalNotes", v>> : v \in FreeTexts}

(***************************************************************************)
(* Actions of the first calculator                                         *)
(***************************************************************************)
UnchangedB == UNCHANGED <<estimateDataB, calculatedEstimateB, estimateLogB>>

\* variant: an edit also discards the estimate on screen
ChangeClearsEstimate(field, value) ==
    /\ now < MaxTime
    /\ estimateData' = handleInputChange(estimateData, field, value)
    /\ calculatedEstimate' = Null
    /\ now' = now + 1
    /\ UNCHANGED estimateLog
    /\ UnchangedB
    /\ UNCHANGED pmVars

\* one onChange event: handleInputChange(field, value)
Change(field, value) ==
    /\ now < MaxTime
    /\ estimateData' = handleInputChange(estimateData, field, value)
    /\ now' = now + 1
    /\ UNCHANGED <<calculatedEstimate, estimateLog>>
    /\ UnchangedB
    /\ UNCHANGED pmVars

ProjectTypeChange == \E v \in ProjectTypes : Change("projectType", v)

ClientNameChange == \E v \in FreeTexts : Change("clientName", v)

SquareFootageChange ==
    \E x \in SquareFootageTexts : Change("squareFootage", orDefault(parseInt(x), 0))

LinearFootageChange ==
    \E x \in LinearFootageTexts : Change("linearFootage", orDefault(parseInt(x), 0))

NumberOfCoatsChange == \E x \in CoatTexts : Change("numberOfCoats", parseInt(x).value)

CrackSeverityChange == \E v \in Severities : Change("crackSeverity", v)

OilSpotAreaChange ==
    \E x \in OilSpotAreaTexts : Change("oilSpotArea", orDefault(parseInt(x), 0))

JobSiteAddressChange == \E v \in FreeTexts : Change("jobSiteAddress", v)

TravelDistanceChange ==
    \E x \in TravelDistanceTexts : Change("travelDistance", orDefault(parseInt(x), 0))

ProfitMarginChange ==
    \E x \in ProfitMarginTexts : Change("profitMargin", orDefault(parseInt(x), 20))

ParkingStallsChange ==
    \E x \in ParkingStallsTexts : Change("parkingStalls", orDefault(parseInt(x), 0))

AdditionalNotesChange == \E v \in FreeTexts : Change("additionalNotes", v)

\* variant: the grand total lives outside the handler and is added to
generateEstimateRunningTotal ==
    /\ now < MaxTime
    /\ calculatedEstimate' =
          LET e == buildEstimate(estimateData, now)
          IN  IF calculatedEstimate = Null THEN e
              ELSE [e EXCEPT !.total = DAdd(e.total, calculatedEstimate.total)]
    /\ estimateLog' = Append(estimateLog, [input    |-> estimateData,
                                          estimate |-> calculatedEstimate'])
    /\ now' = now + 1
    /\ UNCHANGED estimateData
    /\ UnchangedB
    /\ UNCHANGED pmVars

\* variant: the materials object is created once, outside the callback, so
\* totalMaterialCost keeps what earlier calls left in it
generateEstimateSharedMaterials ==
    /\ now < MaxTime
    /\ calculatedEstimate' =
          LET e == buildEstimate(estimateData, now)
              carried == IF calculatedEstimate = Null THEN DZero
                         ELSE calculatedEstimate.materials.totalMaterialCost
              materialTotal == DAdd(carried, e.materials.totalMaterialCost)
              subtotal == DAdd(materialTotal, e.labor.totalLabor)
              overhead == DMulRatio(subtotal, OverheadRate)
              profit == DMulRatio(subtotal, <<estimateData.profitMargin, 100>>)
          IN  [e EXCEPT !.materials.totalMaterialCost = materialTotal,
                        !.subtotal = subtotal,
                        !.overhead = overhead,
                        !.profit = profit,
                        !.total = DAdd(DAdd(subtotal, overhead), profit)]
    /\ estimateLog' = Append(estimateLog, [input    |-> estimateData,
                                          estimate |-> calculatedEstimate'])
    /\ now' = now + 1
    /\ UNCHANGED estimateData
    /\ UnchangedB
    /\ UNCHANGED pmVars

\* the "Generate Professional Estimate" button
generateEstimate ==
    /\ now < MaxTime
    /\ calculatedEstimate' = buildEstimate(estimateData, now)
    /\ estimateLog' = Append(estimateLog, [input    |-> estimateData,
                                          estimate |-> calculatedEstimate'])
    /\ now' = now + 1
    /\ UNCHANGED estimateData
    /\ UnchangedB
    /\ UNCHANGED pmVars

(***************************************************************************)
(* Actions of the second calculator                                        *)
(***************************************************************************)
UnchangedA == UNCHANGED <<estimateData, calculatedEstimate, estimateLog>>

ChangeB ==
    /\ now < MaxTime
    /\ \E ev \in InputEvents : estimateDataB' = handleInputChange(estimateDataB, ev[1], ev[2])
    /\ now' = now + 1
    /\ UNCHANGED <<calculatedEstimateB, estimateLogB>>
    /\ UnchangedA
    /\ UNCHANGED pmVars

generateEstimateB ==
    /\ now < MaxTime
    /\ calculatedEstimateB' = buildEstimate(estimateDataB, now)
    /\ estimateLogB' = Append(estimateLogB, [input    |-> estimateDataB,
                                            estimate |-> calculatedEstimateB'])
    /\ now' = now + 1
    /\ UNCHANGED estimateDataB
    /\ UnchangedA
    /\ UNCHANGED pmVars

(***************************************************************************)
(* The ProjectManagement component: its state, the backend it talks to,    *)
(* and its asynchronous calls.  A call that is awaiting its response is a   *)
(* record of inflight; it keeps what the closure of the call captured.     *)
(***************************************************************************)
UnchangedCalculators == UNCHANGED calcVars

\* the initial value of newProject, also the value the form is reset to
EmptyNewProject ==
    [name           |-> "",
     description    |-> "",
     project_type   |-> "asphalt_paving",
     start_date     |-> "",
     end_date       |-> "",
     site_address   |-> "",
     client_name    |-> "",
     client_phone   |-> "",
     client_email   |-> "",
     estimated_cost |-> 0]

ProjectNames == {"", "Lot A"}

\* two of the five items of the "Project Type" select
NewProjectTypes == {"asphalt_paving", "sealcoating"}

StatusButtons == {"completed", "on_hold"}

\* the row .insert([{ ...newProject, created_by: user.id }]).select().single()
\* returns
Row(form, id, user) ==
    form @@ [id |-> id, status |-> "pending", created_by |-> user.id]

\* a Project object of the component: a row, and the identity of the object
Project(row, ref) == row @@ [ref |-> ref]

\* the rows the table holds when the component mounts
SeedRows ==
    <<[Row([EmptyNewProject EXCEPT !.name = "Depot"], 2, [id |-> "user-1"])
          EXCEPT !.status = "in_progress"],
      [Row([EmptyNewProject EXCEPT !.name = "Main St"], 1, [id |-> "user-1"])
          EXCEPT !.status = "in_progress"]>>

\* the rows of project_milestones with the given project_id, by target_date
MilestonesOf(projectId) ==
    CASE projectId = 1 ->
             <<[id |-> "m1", project_id |-> 1, status |-> "completed"],
               [id |-> "m2", project_id |-> 1, status |-> "pending"]>>
      [] projectId = 2 ->
             <<[id |-> "m3", project_id |-> 2, status |-> "completed"]>>
      [] OTHER -> <<>>

\* percentage of completed milestones among those of the project in the list ms
progressIn(ms, project) ==
    LET OfProject(m) == m.project_id = project.id
        Completed(m) == m.status = "completed"
        projectMilestones == SelectSeq(ms, OfProject)
        completedMilestones == SelectSeq(projectMilestones, Completed)
    IN  IF Len(projectMilestones) = 0 THEN 0
        ELSE (Len(completedMilestones) * 100) \div Len(projectMilestones)

calculateProgress(project) == progressIn(milestones, project)

Users == {Null, [id |-> "user-1"]}

Request(id, kind) ==
    [id |-> id, kind |-> kind, projectId |-> 0, status |-> "",
     selected |-> Null, form |-> Null, user |-> Null]

Requests(kind) == {r \in inflight : r.kind = kind}

\* the component is not on screen
ProjectsUnmounted ==
    /\ projects = <<>>
    /\ milestones = <<>>
    /\ selectedProject = Null
    /\ isCreatingProject = FALSE
    /\ newProject = EmptyNewProject
    /\ dbProjects = SeedRows
    /\ session = Null
    /\ inflight = {}
    /\ issued = 0
    /\ lastToast = ""
    /\ milestoneFetchFailed = FALSE

\* the first render: useEffect(() => { fetchProjects(); }, [])
InitProjects ==
    /\ projects = <<>>
    /\ milestones = <<>>
    /\ selectedProject = Null
    /\ isCreatingProject = FALSE
    /\ newProject = EmptyNewProject
    /\ dbProjects = SeedRows
    /\ session \in Users
    /\ inflight = {Request(0, "fetchProjects")}
    /\ issued = 0
    /\ lastToast = ""
    /\ milestoneFetchFailed = FALSE

\* useEffect(..., [selectedProject]) runs after a render in which selectedProject
\* is another object, and calls fetchMilestones when it is not null
EffectRuns(next) == next # Null /\ next # selectedProject

\* the tag of the call an effect starts after the call tagged id has ended
EffectId(id) == 100 + id

\* the calls awaiting a response once the call r has ended and selectedProject
\* has become next
AfterEffect(r, next) ==
    (inflight \ {r})
        \cup (IF EffectRuns(next)
              THEN {[Request(EffectId(r.id), "fetchMilestones")
                        EXCEPT !.projectId = next.id]}
              ELSE {})

(***************************************************************************)
(* fetchProjects                                                           *)
(***************************************************************************)
fetchProjectsResolves ==
    \E r \in Requests("fetchProjects") :
        /\ projects' = [i \in DOMAIN dbProjects |-> Project(dbProjects[i], <<r.id, "list">>)]
        /\ inflight' = inflight \ {r}
        /\ UNCHANGED <<milestones, selectedProject, isCreatingProject, newProject,
                       dbProjects, session, issued, lastToast, milestoneFetchFailed>>
        /\ UnchangedCalculators

fetchProjectsRejects ==
    \E r \in Requests("fetchProjects") :
        /\ lastToast' = "Failed to fetch projects"
        /\ inflight' = inflight \ {r}
        /\ UNCHANGED <<projects, milestones, selectedProject, isCreatingProject,
                       newProject, dbProjects, session, issued, milestoneFetchFailed>>
        /\ UnchangedCalculators

(***************************************************************************)
(* Selecting a project, fetchMilestones                                    *)
(***************************************************************************)
\* onClick={() => setSelectedProject(project)} on a card of "Recent Projects"
\* (the first five) or of "Active Projects" (those in progress)
SelectProject ==
    \E i \in DOMAIN projects :
        /\ i <= 5 \/ projects[i].status = "in_progress"
        /\ EffectRuns(projects[i])
        /\ issued < MaxRequests
        /\ selectedProject' = projects[i]
        /\ inflight' =
              inflight \cup {[Request(issued + 1, "fetchMilestones")
                                 EXCEPT !.projectId = projects[i].id]}
        /\ issued' = issued + 1
        /\ UNCHANGED <<projects, milestones, isCreatingProject, newProject,
                       dbProjects, session, lastToast, milestoneFetchFailed>>
        /\ UnchangedCalculators

fetchMilestonesResolves ==
    \E r \in Requests("fetchMilestones") :
        /\ milestones' = MilestonesOf(r.projectId)
        /\ inflight' = inflight \ {r}
        /\ UNCHANGED <<projects, selectedProject, isCreatingProject, newProject,
                       dbProjects, session, issued, lastToast, milestoneFetchFailed>>
        /\ UnchangedCalculators

\* the catch only logs to the console
fetchMilestonesRejects ==
    \E r \in Requests("fetchMilestones") :
        /\ milestoneFetchFailed' = TRUE
        /\ inflight' = inflight \ {r}
        /\ UNCHANGED <<projects, milestones, selectedProject, isCreatingProject,
                       newProject, dbProjects, session, issued, lastToast>>
        /\ UnchangedCalculators

(***************************************************************************)
(* updateProjectStatus                                                     *)
(***************************************************************************)
\* a button of an "Active Projects" card: the call starts, and its closure holds
\* the selectedProject of the render the button belongs to
ClickStatusButton(i, status) ==
    /\ projects[i].status = "in_progress"
    /\ issued < MaxRequests
    /\ inflight' =
          inflight \cup {[Request(issued + 1, "updateProjectStatus")
                             EXCEPT !.projectId = projects[i].id,
                                    !.status = status,
                                    !.selected = selectedProject]}
    /\ issued' = issued + 1
    /\ UNCHANGED <<projects, milestones, selectedProject, isCreatingProject, newProject,
                   dbProjects, session, lastToast, milestoneFetchFailed>>
    /\ UnchangedCalculators

MarkComplete == \E i \in DOMAIN projects : ClickStatusButton(i, "completed")

Hold == \E i \in DOMAIN projects : ClickStatusButton(i, "on_hold")

\* prev.map(p => p.id === projectId ? { ...p, status } : p)
withStatus(list, projectId, status, ref) ==
    [i \in DOMAIN list |->
        IF list[i].id = projectId
        THEN IF "ref" \in DOMAIN list[i]
             THEN [list[i] EXCEPT !.status = status, !.ref = ref]
             ELSE [list[i] EXCEPT !.status = status]
        ELSE list[i]]

\* what the continuation of the call r makes of selectedProject:
\* if (selectedProject?.id === projectId)
\*     setSelectedProject(prev => prev ? { ...prev, status } : null)
\* the condition reads the closure, the updater the current state
selectedAfterUpdate(r) ==
    IF r.selected # Null /\ r.selected.id = r.projectId
    THEN IF selectedProject # Null
         THEN [selectedProject EXCEPT !.status = r.status, !.ref = <<r.id, "copy">>]
         ELSE Null
    ELSE selectedProject

updateProjectStatusResolves ==
    \E r \in Requests("updateProjectStatus") :
        /\ dbProjects' = withStatus(dbProjects, r.projectId, r.status, <<>>)
        /\ projects' = withStatus(projects, r.projectId, r.status, <<r.id, "list">>)
        /\ selectedProject' = selectedAfterUpdate(r)
        /\ inflight' = AfterEffect(r, selectedAfterUpdate(r))
        /\ lastToast' = "Project status updated"
        /\ UNCHANGED <<milestones, isCreatingProject, newProject, session, issued,
                       milestoneFetchFailed>>
        /\ UnchangedCalculators

updateProjectStatusRejects ==
    \E r \in Requests("updateProjectStatus") :
        /\ lastToast' = "Failed to update project status"
        /\ inflight' = inflight \ {r}
        /\ UNCHANGED <<projects, milestones, selectedProject, isCreatingProject,
                       newProject, dbProjects, session, issued, milestoneFetchFailed>>
        /\ UnchangedCalculators

(***************************************************************************)
(* The "Create New Project" dialog, createProject                          *)
(***************************************************************************)
\* the "New Project" button
OpenDialog ==
    /\ ~isCreatingProject
    /\ isCreatingProject' = TRUE
    /\ UNCHANGED <<projects, milestones, selectedProject, newProject, dbProjects,
                   session, inflight, issued, lastToast, milestoneFetchFailed>>
    /\ UnchangedCalculators

\* the "Cancel" button of the dialog
CancelDialog ==
    /\ isCreatingProject
    /\ isCreatingProject' = FALSE
    /\ UNCHANGED <<projects, milestones, selectedProject, newProject, dbProjects,
                   session, inflight, issued, lastToast, milestoneFetchFailed>>
    /\ UnchangedCalculators

\* setNewProject(prev => ({ ...prev, [field]: value })) of a field of the dialog
NewProjectChange(field, value) ==
    /\ isCreatingProject
    /\ newProject[field] # value
    /\ newProject' = [newProject EXCEPT ![field] = value]
    /\ UNCHANGED <<projects, milestones, selectedProject, isCreatingProject,
                   dbProjects, session, inflight, issued, lastToast,
                   milestoneFetchFailed>>
    /\ UnchangedCalculators

NewProjectNameChange == \E v \in ProjectNames : NewProjectChange("name", v)

NewProjectTypeChange == \E v \in NewProjectTypes : NewProjectChange("project_type", v)

\* the "Create Project" button: createProject starts and awaits
\* supabase.auth.getUser(); its closure holds the newProject of that render
createProject ==
    /\ isCreatingProject
    /\ issued < MaxRequests
    /\ inflight' = inflight \cup {[Request(issued + 1, "getUser") EXCEPT !.form = newProject]}
    /\ issued' = issued + 1
    /\ UNCHANGED <<projects, milestones, selectedProject, isCreatingProject, newProject,
                   dbProjects, session, lastToast, milestoneFetchFailed>>
    /\ UnchangedCalculators

\* getUser() has answered: without a user the call ends with a toast, with one
\* it sends the insert and awaits it
createProjectGotUser ==
    \E r \in Requests("getUser") :
        /\ IF session = Null
           THEN /\ lastToast' = "Please log in to create projects"
                /\ inflight' = inflight \ {r}
           ELSE /\ inflight' =
                      (inflight \ {r}) \cup {[r EXCEPT !.kind = "insert", !.user = session]}
                /\ UNCHANGED lastToast
        /\ UNCHANGED <<projects, milestones, selectedProject, isCreatingProject,
                       newProject, dbProjects, session, issued, milestoneFetchFailed>>
        /\ UnchangedCalculators

\* variant: the dialog is closed in a finally block, whatever the insert returned
createProjectInsertRejectsAndCloses ==
    \E r \in Requests("insert") :
        /\ lastToast' = "Failed to create project"
        /\ isCreatingProject' = FALSE
        /\ inflight' = inflight \ {r}
        /\ UNCHANGED <<projects, milestones, selectedProject, newProject, dbProjects,
                       session, issued, milestoneFetchFailed>>
        /\ UnchangedCalculators

\* the insert returned an error: throw, catch, toast
createProjectInsertRejects ==
    \E r \in Requests("insert") :
        /\ lastToast' = "Failed to create project"
        /\ inflight' = inflight \ {r}
        /\ UNCHANGED <<projects, milestones, selectedProject, isCreatingProject,
                       newProject, dbProjects, session, issued, milestoneFetchFailed>>
        /\ UnchangedCalculators

\* the insert returned the new row
createProjectInsertResolves ==
    \E r \in Requests("insert") :
        LET data == Row(r.form, Len(dbProjects) + 1, r.user)
        IN  /\ dbProjects' = <<data>> \o dbProjects
            /\ projects' = <<Project(data, <<r.id, "list">>)>> \o projects
            /\ isCreatingProject' = FALSE
            /\ newProject' = EmptyNewProject
            /\ lastToast' = "Project created successfully"
            /\ inflight' = inflight \ {r}
            /\ UNCHANGED <<milestones, selectedProject, session, issued,
                           milestoneFetchFailed>>
            /\ UnchangedCalculators

(***************************************************************************)
(* Specifications                                                          *)
(***************************************************************************)
Init ==
    /\ estimateData = InitialEstimateData
    /\ calculatedEstimate = Null
    /\ estimateLog = <<>>
    /\ now = 0
    /\ estimateDataB = InitialEstimateData
    /\ calculatedEstimateB = Null
    /\ estimateLogB = <<>>
    /\ ProjectsUnmounted

Next ==
    \/ ProjectTypeChange
    \/ ClientNameChange
    \/ SquareFootageChange
    \/ LinearFootageChange
    \/ NumberOfCoatsChange
    \/ CrackSeverityChange
    \/ OilSpotAreaChange
    \/ JobSiteAddressChange
    \/ TravelDistanceChange
    \/ ProfitMarginChange
    \/ ParkingStallsChange
    \/ AdditionalNotesChange
    \/ generateEstimate

\* one calculator driven through its form
Spec == Init /\ [][Next]_vars

(***************************************************************************)
(* The calculation on its own: the form already holds some job, and the    *)
(* button is pressed.                                                      *)
(***************************************************************************)
SquareFootages == {-5, 0, 1, 1000, 1158, 2500}

LinearFootages == {-5, 0, 1, 250, 500}

OilSpotAreas == {-5, 0, 175, 176}

TravelDistances == {-5, 0, 7}

ProfitMargins == {-20, 1, 20, 100, 150}

JobInputs ==
    {[InitialEstimateData EXCEPT !.projectType = pt, !.squareFootage = sf,
                                 !.linearFootage = lf, !.numberOfCoats = nc,
                                 !.crackSeverity = cs, !.oilSpotArea = os,
                                 !.travelDistance = td, !.profitMargin = pm] :
        pt \in {"", "sealcoating"}, sf \in SquareFootages, lf \in LinearFootages,
        nc \in CoatOptions, cs \in Severities, os \in OilSpotAreas,
        td \in TravelDistances, pm \in ProfitMargins}

InitCalc ==
    /\ estimateData \in JobInputs
    /\ calculatedEstimate = Null
    /\ estimateLog = <<>>
    /\ now = 0
    /\ estimateDataB = InitialEstimateData
    /\ calculatedEstimateB = Null
    /\ estimateLogB = <<>>
    /\ ProjectsUnmounted

NextCalc == generateEstimate

SpecCalc == InitCalc /\ [][NextCalc]_vars

(***************************************************************************)
(* Two calculators side by side, each driven through its own form          *)
(***************************************************************************)
NextPair == Next \/ ChangeB \/ generateEstimateB

SpecPair == Init /\ [][NextPair]_vars

(***************************************************************************)
(* One crack length, the severity picked again and again between presses   *)
(* of the button                                                           *)
(***************************************************************************)
CrackLengths == 1..MaxCrackLength

InitCrack ==
    /\ estimateData \in {[InitialEstimateData EXCEPT !.linearFootage = lf] :
                             lf \in CrackLengths}
    /\ calculatedEstimate = Null
    /\ estimateLog = <<>>
    /\ now = 0
    /\ estimateDataB = InitialEstimateData
    /\ calculatedEstimateB = Null
    /\ estimateLogB = <<>>
    /\ ProjectsUnmounted

NextCrack == CrackSeverityChange \/ generateEstimate

SpecCrack == InitCrack /\ [][NextCrack]_vars

(***************************************************************************)
(* The ProjectManagement component on its own                              *)
(***************************************************************************)
InitProjectManagement ==
    /\ estimateData = InitialEstimateData
    /\ calculatedEstimate = Null
    /\ estimateLog = <<>>
    /\ now = 0
    /\ estimateDataB = InitialEstimateData
    /\ calculatedEstimateB = Null
    /\ estimateLogB = <<>>
    /\ InitProjects

NextProjectManagement ==
    \/ fetchProjectsResolves
    \/ fetchProjectsRejects
    \/ SelectProject
    \/ fetchMilestonesResolves
    \/ fetchMilestonesRejects
    \/ MarkComplete
    \/ Hold
    \/ updateProjectStatusResolves
    \/ updateProjectStatusRejects
    \/ OpenDialog
    \/ CancelDialog
    \/ NewProjectNameChange
    \/ NewProjectTypeChange
    \/ createProject
    \/ createProjectGotUser
    \/ createProjectInsertResolves
    \/ createProjectInsertRejects

SpecProjects == InitProjectManagement /\ [][NextProjectManagement]_vars

(***************************************************************************)
(* Vocabulary of the properties                                            *)
(***************************************************************************)
\* the job a stored estimate was computed from
StoredJob == estimateLog[Len(estimateLog)].input

Stored == calculatedEstimate # Null /\ Len(estimateLog) > 0

\* the documented input domain of the engine
ValidJob(ed) ==
    /\ ed.squareFootage >= 0
    /\ ed.linearFootage >= 0
    /\ ed.oilSpotArea >= 0
    /\ ed.travelDistance >= 0
    /\ ed.numberOfCoats \in CoatOptions
    /\ ed.crackSeverity \in Severities
    /\ ed.profitMargin \in 0..100

MaterialFields == {"sealMasterPMM", "sand", "water", "prepSeal", "fastDry", "crackMaster"}

CostFields == {"sealMasterPMM", "sand", "prepSeal", "fastDry", "crackMaster"}

LaborFields == {"laborCost", "equipmentCost", "fuelCost", "totalLabor"}

AllNonNegative(e) ==
    /\ \A f \in MaterialFields : DNonNeg(e.materials[f])
    /\ \A f \in CostFields : DNonNeg(e.costs[f])
    /\ DNonNeg(e.materials.totalMaterialCost)
    /\ \A f \in LaborFields : DNonNeg(e.labor[f])
    /\ DNonNeg(e.subtotal) /\ DNonNeg(e.overhead) /\ DNonNeg(e.profit) /\ DNonNeg(e.total)

ZeroCategories(ed, e) ==
    /\ ed.squareFootage = 0 =>
          /\ \A f \in {"sealMasterPMM", "sand", "water", "fastDry"} : e.materials[f] = DZero
          /\ \A f \in {"sealMasterPMM", "sand", "fastDry"} : e.costs[f] = DZero
    /\ ed.oilSpotArea = 0 => e.materials.prepSeal = DZero /\ e.costs.prepSeal = DZero
    /\ ed.linearFootage = 0 => e.materials.crackMaster = DZero /\ e.costs.crackMaster = DZero
    /\ ed.travelDistance = 0 => e.labor.fuelCost = DZero

(***************************************************************************)
(* C1: for a job inside the documented domain every quantity and every     *)
(* cost of the stored estimate is >= 0, and a category whose triggering    *)
(* quantity is 0 is exactly 0.                                             *)
(***************************************************************************)
C1_NonNegative ==
    (Stored /\ ValidJob(StoredJob)) =>
        /\ AllNonNegative(calculatedEstimate)
        /\ ZeroCategories(StoredJob, calculatedEstimate)

C1_Witness ==
    /\ Stored /\ ValidJob(StoredJob)
    /\ StoredJob.squareFootage > 0 /\ StoredJob.linearFootage > 0
    /\ StoredJob.oilSpotArea = 0 /\ StoredJob.travelDistance = 0
    /\ DIsPos(calculatedEstimate.costs.sealMasterPMM)

(***************************************************************************)
(* C2: for a job inside the documented domain total >= subtotal, and       *)
(* subtotal is exactly materials.totalMaterialCost + labor.totalLabor.     *)
(***************************************************************************)
C2_TotalCoversSubtotal ==
    (Stored /\ ValidJob(StoredJob)) =>
        /\ DLeq(calculatedEstimate.subtotal, calculatedEstimate.total)
        /\ calculatedEstimate.subtotal =
              DAdd(calculatedEstimate.materials.totalMaterialCost,
                   calculatedEstimate.labor.totalLabor)

C2_Witness ==
    /\ Stored /\ ValidJob(StoredJob)
    /\ StoredJob.profitMargin = 20
    /\ DLess(calculatedEstimate.subtotal, calculatedEstimate.total)
    /\ DIsPos(calculatedEstimate.materials.totalMaterialCost)

(***************************************************************************)
(* C3: generateEstimate rejects a job outside the documented domain (a     *)
(* negative numeric field, or numberOfCoats, crackSeverity or projectType  *)
(* outside its enumeration, the initial empty projectType included): no    *)
(* estimate is ever stored for such a job.                                 *)
(***************************************************************************)
InDomain(ed) ==
    /\ ed.projectType \in ProjectTypes
    /\ ed.squareFootage >= 0
    /\ ed.linearFootage >= 0
    /\ ed.oilSpotArea >= 0
    /\ ed.parkingStalls >= 0
    /\ ed.travelDistance >= 0
    /\ ed.profitMargin >= 0
    /\ ed.numberOfCoats \in CoatOptions
    /\ ed.crackSeverity \in Severities

C3_RejectsInvalidInput == Stored => InDomain(StoredJob)

(***************************************************************************)
(* C4: two generateEstimate calls in a row on the same form contents store *)
(* estimates that agree in every field except timestamp.                   *)
(***************************************************************************)
C4_Idempotent ==
    \A i \in 1..(Len(estimateLog) - 1) :
        estimateLog[i].input = estimateLog[i + 1].input =>
            SansTimestamp(estimateLog[i].estimate) = SansTimestamp(estimateLog[i + 1].estimate)

C4_Witness ==
    /\ Len(estimateLog) >= 2
    /\ estimateLog[1].input = estimateLog[2].input
    /\ estimateLog[1].input.squareFootage = 1000
    /\ estimateLog[1].estimate.timestamp # estimateLog[2].estimate.timestamp
    /\ calculatedEstimate = estimateLog[Len(estimateLog)].estimate

(***************************************************************************)
(* C5: an estimate depends only on the seven job fields held when the      *)
(* button is pressed, not on the edits and earlier calls that led there:   *)
(* any two calls, in the same session or in two separate ones, that read   *)
(* the same job store estimates that agree except for the timestamp.       *)
(***************************************************************************)
Job(ed) ==
    <<ed.squareFootage, ed.linearFootage, ed.numberOfCoats, ed.crackSeverity,
      ed.oilSpotArea, ed.travelDistance, ed.profitMargin>>

AllCalls ==
    {estimateLog[i] : i \in DOMAIN estimateLog}
        \cup {estimateLogB[j] : j \in DOMAIN estimateLogB}

C5_DependsOnlyOnJob ==
    \A a \in AllCalls : \A b \in AllCalls :
        Job(a.input) = Job(b.input) =>
            SansTimestamp(a.estimate) = SansTimestamp(b.estimate)

\* the first session pressed the button twice, the second reached the same job
\* after an edit
C5_Witness ==
    /\ Len(estimateLog) >= 2 /\ Len(estimateLogB) >= 1
    /\ Job(estimateLog[2].input) = Job(estimateLogB[1].input)
    /\ estimateLogB[1].input # InitialEstimateData
    /\ calculatedEstimate # Null /\ calculatedEstimateB # Null
    /\ SansTimestamp(calculatedEstimate) = SansTimestamp(calculatedEstimateB)

\* the decimal num / den, den a power of ten
DLit(num, den) == DDivInt(DInt(num), den)

(***************************************************************************)
(* C6: with squareFootage = 0 the sealant quantity and its cost are 0, and *)
(* so are the sand, water and fast-dry quantities, whatever numberOfCoats. *)
(***************************************************************************)
C6_NoAreaNoSealant ==
    (Stored /\ StoredJob.squareFootage = 0) =>
        /\ calculatedEstimate.materials.sealMasterPMM = DZero
        /\ calculatedEstimate.costs.sealMasterPMM = DZero
        /\ calculatedEstimate.materials.sand = DZero
        /\ calculatedEstimate.materials.water = DZero
        /\ calculatedEstimate.materials.fastDry = DZero

C6_Witness ==
    /\ Stored /\ StoredJob.squareFootage = 0 /\ StoredJob.numberOfCoats = 3
    /\ StoredJob.linearFootage > 0
    /\ calculatedEstimate.materials.sealMasterPMM = DZero
    /\ DIsPos(calculatedEstimate.materials.totalMaterialCost)

(***************************************************************************)
(* C7: laborHours = max(raw, 4), raw being 2 hours per 1000 sq ft when     *)
(* squareFootage > 0 plus 1 hour per 100 ft when linearFootage > 0; so     *)
(* laborHours >= 4, and it is exactly 4 when squareFootage and             *)
(* linearFootage are both 0.  Hours are compared in thousandths.           *)
(***************************************************************************)
RawMilliHours(ed) ==
    (IF ed.squareFootage > 0 THEN 2 * ed.squareFootage ELSE 0)
        + (IF ed.linearFootage > 0 THEN 10 * ed.linearFootage ELSE 0)

C7_LaborFloor ==
    Stored =>
        LET raw == RawMilliHours(StoredJob)
            hours == calculatedEstimate.labor.laborHours
        IN  /\ hours = [hi |-> IF raw > 4000 THEN raw ELSE 4000, lo |-> 0]
            /\ DLeq(DInt(4), hours)
            /\ (StoredJob.squareFootage = 0 /\ StoredJob.linearFootage = 0) => hours = DInt(4)

\* a job above the floor, with several coats
C7_Witness ==
    /\ Stored
    /\ StoredJob.squareFootage = 2500 /\ StoredJob.linearFootage = 250
    /\ StoredJob.numberOfCoats = 2
    /\ calculatedEstimate.labor.laborHours = DLit(75, 10)

(***************************************************************************)
(* C8: the all-zero job still gets an estimate: every material cost and    *)
(* totalMaterialCost are 0, laborHours = 4, fuelCost = 0, and with         *)
(* profitMargin = 20 the total is 999.                                     *)
(***************************************************************************)
AllZeroJob(ed) ==
    /\ ed.squareFootage = 0 /\ ed.linearFootage = 0
    /\ ed.oilSpotArea = 0 /\ ed.travelDistance = 0

C8_AllZeroJob ==
    (Stored /\ AllZeroJob(StoredJob)) =>
        /\ \A f \in CostFields : calculatedEstimate.costs[f] = DZero
        /\ calculatedEstimate.materials.totalMaterialCost = DZero
        /\ calculatedEstimate.labor.laborHours = DInt(4)
        /\ calculatedEstimate.labor.fuelCost = DZero
        /\ StoredJob.profitMargin = 20 => calculatedEstimate.total = DInt(999)

C8_Witness ==
    /\ Stored /\ AllZeroJob(StoredJob) /\ StoredJob.profitMargin = 20
    /\ calculatedEstimate.total = DInt(999)

(***************************************************************************)
(* C9: squareFootage = 1000, one coat, every other quantity 0 and          *)
(* profitMargin = 20.                                                      *)
(***************************************************************************)
Scenario1(ed) ==
    /\ ed.squareFootage = 1000 /\ ed.numberOfCoats = 1
    /\ ed.linearFootage = 0 /\ ed.oilSpotArea = 0 /\ ed.travelDistance = 0
    /\ ed.profitMargin = 20

Scenario1Quantities(e) ==
    /\ e.materials.sealMasterPMM = DLit(144, 10)
    /\ e.materials.sand = DLit(432, 10)
    /\ e.costs.sand = DInt(1 * MATERIAL_COSTS.sand50lb)
    /\ e.materials.water = DLit(288, 100)
    /\ e.labor.laborHours = DInt(4)

\* C9 as claimed: sealant 14.4 gal, sand 43.2 lb priced as 1 bag, water 2.88 gal,
\* 4 labor hours, and totalMaterialCost = sealant cost + one bag of sand
C9_AsClaimed ==
    (Stored /\ Scenario1(StoredJob)) =>
        /\ Scenario1Quantities(calculatedEstimate)
        /\ calculatedEstimate.materials.totalMaterialCost =
              DAdd(DMulRatio(DLit(144, 10), MATERIAL_COSTS.sealMasterPMM),
                   DInt(MATERIAL_COSTS.sand50lb))

\* C9 amended: the same quantities, and totalMaterialCost = sealant cost + one bag
\* of sand + one bucket of fast-dry additive (54.576 + 10 + 50 = 114.576)
C9_Scenario1 ==
    (Stored /\ Scenario1(StoredJob)) =>
        /\ Scenario1Quantities(calculatedEstimate)
        /\ calculatedEstimate.costs.fastDry = DInt(MATERIAL_COSTS.fastDry5gal)
        /\ calculatedEstimate.materials.totalMaterialCost =
              DAdd(DAdd(DMulRatio(DLit(144, 10), MATERIAL_COSTS.sealMasterPMM),
                        DInt(MATERIAL_COSTS.sand50lb)),
                   DInt(MATERIAL_COSTS.fastDry5gal))
        /\ calculatedEstimate.materials.totalMaterialCost = DLit(114576, 1000)

C9_Witness ==
    /\ Stored /\ Scenario1(StoredJob)
    /\ calculatedEstimate.materials.sealMasterPMM = DLit(144, 10)
    /\ calculatedEstimate.materials.totalMaterialCost = DLit(114576, 1000)

(***************************************************************************)
(* C10: for linearFootage > 0 the crack-filler box count is                *)
(* ceiling(linearFootage * m / 100), m = 1.5 severe, 1.2 moderate, 1.0     *)
(* light or anything else; for linearFootage = 0 it is 0; 500 ft of severe *)
(* cracking needs 8 boxes.                                                 *)
(***************************************************************************)
TenthsMultiplier(severity) ==
    CASE severity = "severe" -> 15
      [] severity = "moderate" -> 12
      [] OTHER -> 10

C10_CrackBoxes ==
    /\ \A other \in {"", "none", "extreme"} : crackMultiplier(other) = crackMultiplier("light")
    /\ Stored =>
        LET lf == StoredJob.linearFootage
            boxes == calculatedEstimate.materials.crackMaster
        IN  /\ lf > 0 => boxes = DInt(CeilDiv(lf * TenthsMultiplier(StoredJob.crackSeverity), 1000))
            /\ lf = 0 => boxes = DZero
            /\ (lf = 500 /\ StoredJob.crackSeverity = "severe") => boxes = DInt(8)

C10_Witness ==
    /\ Stored
    /\ StoredJob.linearFootage = 500 /\ StoredJob.crackSeverity = "severe"
    /\ calculatedEstimate.materials.crackMaster = DInt(8)

(***************************************************************************)
(* C11: for a fixed linearFootage > 0 the crack-filler box count for       *)
(* severe is >= the count for moderate, which is >= the count for light.   *)
(***************************************************************************)
SeverityRank(severity) ==
    CASE severity = "light" -> 1
      [] severity = "moderate" -> 2
      [] severity = "severe" -> 3

C11_SeverityMonotone ==
    \A i \in DOMAIN estimateLog : \A j \in DOMAIN estimateLog :
        LET a == estimateLog[i]
            b == estimateLog[j]
        IN  (/\ a.input.linearFootage > 0
             /\ a.input.linearFootage = b.input.linearFootage
             /\ SeverityRank(a.input.crackSeverity) <= SeverityRank(b.input.crackSeverity))
            => DLeq(a.estimate.materials.crackMaster, b.estimate.materials.crackMaster)

\* the same length estimated as light and then as severe, needing more boxes
C11_Witness ==
    /\ Len(estimateLog) >= 2
    /\ estimateLog[1].input.linearFootage = estimateLog[2].input.linearFootage
    /\ estimateLog[1].input.crackSeverity = "light"
    /\ estimateLog[2].input.crackSeverity = "severe"
    /\ DLess(estimateLog[1].estimate.materials.crackMaster,
             estimateLog[2].estimate.materials.crackMaster)

(***************************************************************************)
(* C12: after any sequence of form edits squareFootage, linearFootage,     *)
(* oilSpotArea and travelDistance held in estimateData are all >= 0.       *)
(***************************************************************************)
C12_MeasurementsNonNegative ==
    /\ estimateData.squareFootage >= 0
    /\ estimateData.linearFootage >= 0
    /\ estimateData.oilSpotArea >= 0
    /\ estimateData.travelDistance >= 0

(***************************************************************************)
(* C13: after any sequence of form edits estimateData.profitMargin lies in *)
(* 0..100, so every generateEstimate call reads a percentage in 0..100.    *)
(***************************************************************************)
C13_ProfitMarginInRange ==
    /\ estimateData.profitMargin \in 0..100
    /\ \A i \in DOMAIN estimateLog : estimateLog[i].input.profitMargin \in 0..100

(***************************************************************************)
(* C14: the estimate does not depend on projectType, clientName,           *)
(* jobSiteAddress, parkingStalls or additionalNotes: two calls whose forms *)
(* agree on the seven job fields and differ in any of these store          *)
(* estimates equal in every field except timestamp.                        *)
(***************************************************************************)
Informational(ed) ==
    <<ed.projectType, ed.clientName, ed.jobSiteAddress, ed.parkingStalls,
      ed.additionalNotes>>

C14_IgnoresInformationalFields ==
    \A i \in DOMAIN estimateLog : \A j \in DOMAIN estimateLog :
        (/\ Job(estimateLog[i].input) = Job(estimateLog[j].input)
         /\ Informational(estimateLog[i].input) # Informational(estimateLog[j].input))
        => SansTimestamp(estimateLog[i].estimate) = SansTimestamp(estimateLog[j].estimate)

\* a sealcoating job estimated before and after the project type is picked
C14_Witness ==
    /\ Len(estimateLog) >= 2
    /\ Job(estimateLog[1].input) = Job(estimateLog[2].input)
    /\ estimateLog[1].input.squareFootage = 1000
    /\ estimateLog[1].input.projectType = ""
    /\ estimateLog[2].input.projectType = "crack-filling"
    /\ SansTimestamp(estimateLog[1].estimate) = SansTimestamp(estimateLog[2].estimate)

(***************************************************************************)
(* C15: in the results card a priced material line is shown exactly when   *)
(* the triggering quantity of the estimated job is positive: sealant, sand *)
(* and fast-dry iff squareFootage > 0, primer iff oilSpotArea > 0, crack   *)
(* filler iff linearFootage > 0; a shown line never has cost 0, and        *)
(* nothing is shown before the first estimate.                             *)
(***************************************************************************)
C15_LinesFollowQuantities ==
    /\ calculatedEstimate = Null => shownMaterialLines(calculatedEstimate) = {}
    /\ Stored =>
        LET shown == shownMaterialLines(calculatedEstimate)
        IN  /\ \A f \in {"sealMasterPMM", "sand", "fastDry"} :
                  f \in shown <=> StoredJob.squareFootage > 0
            /\ "prepSeal" \in shown <=> StoredJob.oilSpotArea > 0
            /\ "crackMaster" \in shown <=> StoredJob.linearFootage > 0
            /\ \A f \in shown : DIsPos(calculatedEstimate.costs[f])

\* the smallest sealcoating job with an oil spot and no cracks
C15_Witness ==
    /\ Stored
    /\ StoredJob.squareFootage = 1 /\ StoredJob.oilSpotArea = 175
    /\ StoredJob.linearFootage = 0
    /\ shownMaterialLines(calculatedEstimate) = {"sealMasterPMM", "sand", "fastDry", "prepSeal"}

(***************************************************************************)
(* C16: a stored estimate is immutable.  A step that is not a              *)
(* generateEstimate call, and so every handleInputChange, leaves           *)
(* calculatedEstimate as it is; calculatedEstimate changes only in a       *)
(* generateEstimate call, which leaves the form alone and stores the       *)
(* estimate freshly computed from it; once non-null it is never null       *)
(* again.                                                                  *)
(***************************************************************************)
C16_EstimateImmutable ==
    [][/\ Len(estimateLog') = Len(estimateLog) => calculatedEstimate' = calculatedEstimate
       /\ estimateData' # estimateData => calculatedEstimate' = calculatedEstimate
       /\ calculatedEstimate' # calculatedEstimate =>
             /\ Len(estimateLog') = Len(estimateLog) + 1
             /\ estimateData' = estimateData
             /\ calculatedEstimate' = buildEstimate(estimateData, now)
       /\ calculatedEstimate # Null => calculatedEstimate' # Null]_vars

\* the form was edited after the estimate was stored, and the estimate is still
\* the one the last call stored
C16_Witness ==
    /\ Stored
    /\ Job(estimateData) # Job(StoredJob)
    /\ now > calculatedEstimate.timestamp + 1
    /\ calculatedEstimate = estimateLog[Len(estimateLog)].estimate
    /\ calculatedEstimate = buildEstimate(StoredJob, calculatedEstimate.timestamp)

(***************************************************************************)
(* C17: if squareFootage > 0 the sealant quantity is                       *)
(* squareFootage * 0.0144 + (numberOfCoats - 1) * squareFootage * 0.0111,  *)
(* which for one coat is the first term alone.  Gallons are counted in     *)
(* ten-thousandths.                                                        *)
(***************************************************************************)
C17_SealantGallons ==
    (Stored /\ StoredJob.squareFootage > 0) =>
        LET sf == StoredJob.squareFootage
            nc == StoredJob.numberOfCoats
        IN  /\ calculatedEstimate.materials.sealMasterPMM =
                  DLit(sf * 144 + (nc - 1) * sf * 111, 10000)
            /\ nc = 1 => calculatedEstimate.materials.sealMasterPMM = DLit(sf * 144, 10000)

\* 2500 sq ft in three coats: 36 + 2 * 27.75 = 91.5 gal
C17_Witness ==
    /\ Stored
    /\ StoredJob.squareFootage = 2500 /\ StoredJob.numberOfCoats = 3
    /\ calculatedEstimate.materials.sealMasterPMM = DLit(915, 10)

(***************************************************************************)
(* C18: with P the sealant quantity, sand = (P / 100) * 300 pounds,        *)
(* water = P * 0.20 and fastDry = (P / 125) * 2 gallons, all stored        *)
(* without rounding to bags or buckets.                                    *)
(***************************************************************************)
C18_MixQuantities ==
    Stored =>
        LET P == calculatedEstimate.materials.sealMasterPMM
        IN  /\ calculatedEstimate.materials.sand = DMulInt(P, 3)
            /\ DMulInt(calculatedEstimate.materials.water, 5) = P
            /\ DMulInt(calculatedEstimate.materials.fastDry, 125) = DMulInt(P, 2)

\* 43.2 lb of sand and 0.2304 gal of additive: neither a whole bag nor a bucket
C18_Witness ==
    /\ Stored
    /\ calculatedEstimate.materials.sealMasterPMM = DLit(144, 10)
    /\ calculatedEstimate.materials.sand = DLit(432, 10)
    /\ calculatedEstimate.materials.water = DLit(288, 100)
    /\ calculatedEstimate.materials.fastDry = DLit(2304, 10000)

(***************************************************************************)
(* C19: if oilSpotArea > 0 then prepSeal = ceiling(oilSpotArea / 175) and  *)
(* its cost is prepSeal * 50, the bucket price on that integer with no     *)
(* division by the 5-gallon bucket size; if oilSpotArea = 0 both are 0.    *)
(***************************************************************************)
\* the least k with unit * k >= x, for x >= 0
LeastCover(x, unit) == CHOOSE k \in 0..x : unit * k >= x /\ unit * (k - 1) < x

C19_Primer ==
    Stored =>
        LET os == StoredJob.oilSpotArea
        IN  /\ os > 0 =>
                  /\ calculatedEstimate.materials.prepSeal = DInt(LeastCover(os, 175))
                  /\ calculatedEstimate.costs.prepSeal = DInt(LeastCover(os, 175) * 50)
            /\ os = 0 =>
                  /\ calculatedEstimate.materials.prepSeal = DZero
                  /\ calculatedEstimate.costs.prepSeal = DZero

\* 176 sq ft of oil spots: 2 units, priced 100
C19_Witness ==
    /\ Stored /\ StoredJob.oilSpotArea = 176
    /\ calculatedEstimate.materials.prepSeal = DInt(2)
    /\ calculatedEstimate.costs.prepSeal = DInt(100)

(***************************************************************************)
(* C20: line costs are sealant = gallons * 3.79, sand =                    *)
(* ceiling(sandPounds / 50) * 10.00, primer = prepSeal * 50.00, fast-dry = *)
(* ceiling(fastDryGallons / 5) * 50.00 and crack filler = boxes * 44.95;   *)
(* the rounding to bags and buckets happens only in the price, and         *)
(* totalMaterialCost is the sum of exactly these five costs.               *)
(***************************************************************************)
\* the least number of packs of the given size that hold the quantity q >= 0
Packs(q, size) ==
    CHOOSE k \in 0..((q.hi \div 1000) + 1) :
        DLeq(q, DInt(size * k)) /\ (k = 0 \/ DLess(DInt(size * (k - 1)), q))

C20_LineCosts ==
    Stored =>
        LET m == calculatedEstimate.materials
            c == calculatedEstimate.costs
        IN  /\ DMulInt(c.sealMasterPMM, 100) = DMulInt(m.sealMasterPMM, 379)
            /\ c.sand = DInt(Packs(m.sand, 50) * 10)
            /\ c.prepSeal = DMulInt(m.prepSeal, 50)
            /\ c.fastDry = DInt(Packs(m.fastDry, 5) * 50)
            /\ DMulInt(c.crackMaster, 100) = DMulInt(m.crackMaster, 4495)
            /\ m.totalMaterialCost =
                  DAdd(c.crackMaster,
                       DAdd(c.fastDry, DAdd(c.prepSeal, DAdd(c.sand, c.sealMasterPMM))))

\* every line priced, the sand and the additive stored unrounded
C20_Witness ==
    /\ Stored
    /\ StoredJob.squareFootage = 1158 /\ StoredJob.numberOfCoats = 1
    /\ StoredJob.linearFootage = 500 /\ StoredJob.oilSpotArea = 176
    /\ DLess(DInt(50), calculatedEstimate.materials.sand)
    /\ DLess(calculatedEstimate.materials.sand, DInt(51))
    /\ calculatedEstimate.costs.sand = DInt(20)
    /\ calculatedEstimate.costs.fastDry = DInt(50)
    /\ DIsPos(calculatedEstimate.costs.crackMaster)

(***************************************************************************)
(* C21: with h the floored laborHours, laborCost = h * 45 * 3,             *)
(* equipmentCost = h * 50, fuelCost = ((2 * travelDistance) / 15) * 4.50,  *)
(* and totalLabor = laborCost + equipmentCost + fuelCost.  The fuel cost   *)
(* is compared after clearing the denominators: 1500 * fuelCost =          *)
(* 2 * travelDistance * 450.                                               *)
(***************************************************************************)
C21_LaborCosts ==
    Stored =>
        LET l == calculatedEstimate.labor
            h == l.laborHours
        IN  /\ l.laborCost = DMulInt(h, 135)
            /\ l.equipmentCost = DMulInt(h, 50)
            /\ DMulInt(l.fuelCost, 1500) = DInt(2 * StoredJob.travelDistance * 450)
            /\ l.totalLabor = DAdd(l.fuelCost, DAdd(l.equipmentCost, l.laborCost))

\* 7.5 hours and 7 miles each way: 1012.50 + 375 + 4.20
C21_Witness ==
    /\ Stored
    /\ StoredJob.travelDistance = 7
    /\ calculatedEstimate.labor.laborHours = DLit(75, 10)
    /\ calculatedEstimate.labor.laborCost = DLit(10125, 10)
    /\ calculatedEstimate.labor.equipmentCost = DInt(375)
    /\ calculatedEstimate.labor.fuelCost = DLit(42, 10)
    /\ calculatedEstimate.labor.totalLabor = DLit(13917, 10)

(***************************************************************************)
(* C22: overhead = subtotal * 0.15, profit = subtotal * (profitMargin /    *)
(* 100), taken on the subtotal and not on subtotal plus overhead, and      *)
(* total = subtotal + overhead + profit = subtotal * (1.15 + profitMargin  *)
(* / 100).  Each equation is compared after multiplying both sides by 100. *)
(***************************************************************************)
C22_Markup ==
    Stored =>
        LET e == calculatedEstimate
            pm == StoredJob.profitMargin
        IN  /\ DMulInt(e.overhead, 100) = DMulInt(e.subtotal, 15)
            /\ DMulInt(e.profit, 100) = DMulInt(e.subtotal, pm)
            /\ e.total = DAdd(e.profit, DAdd(e.overhead, e.subtotal))
            /\ DMulInt(e.total, 100) = DMulInt(e.subtotal, 115 + pm)

\* the all-zero job at 100 percent: subtotal 740, overhead 111, profit 740
C22_Witness ==
    /\ Stored /\ AllZeroJob(StoredJob) /\ StoredJob.profitMargin = 100
    /\ calculatedEstimate.subtotal = DInt(740)
    /\ calculatedEstimate.overhead = DInt(111)
    /\ calculatedEstimate.profit = DInt(740)
    /\ calculatedEstimate.total = DInt(1591)

(***************************************************************************)
(* C23: squareFootage, linearFootage, oilSpotArea, travelDistance and      *)
(* parkingStalls start at 0, and an edit of one of them to an empty or     *)
(* non-numeric text stores 0 in estimateData.                              *)
(***************************************************************************)
QuantityFields ==
    {"squareFootage", "linearFootage", "oilSpotArea", "travelDistance", "parkingStalls"}

QuantityTexts(field) ==
    CASE field = "squareFootage" -> SquareFootageTexts
      [] field = "linearFootage" -> LinearFootageTexts
      [] field = "oilSpotArea" -> OilSpotAreaTexts
      [] field = "travelDistance" -> TravelDistanceTexts
      [] field = "parkingStalls" -> ParkingStallsTexts

\* a decimal numeral: an optional minus sign, then digits with at most one point
IsNumericText(text) ==
    LET body == IF text # <<>> /\ Head(text) = "-" THEN Tail(text) ELSE text
    IN  /\ \E i \in DOMAIN body : body[i] \in DigitChars
        /\ \A i \in DOMAIN body : body[i] \in DigitChars \cup {"."}
        /\ Cardinality({i \in DOMAIN body : body[i] = "."}) <= 1

C23_BlankStoresZero ==
    /\ \A f \in QuantityFields : estimateData[f] = 0
    /\ [][\A f \in QuantityFields : \A x \in QuantityTexts(f) :
              (~IsNumericText(x) /\ Change(f, orDefault(parseInt(x), 0)))
                  => estimateData'[f] = 0]_vars

\* 500 ft of cracks were estimated and the field was then blanked: no other
\* text of the field brings it back to 0
C23_Witness ==
    /\ Len(estimateLog) >= 1
    /\ estimateLog[1].input.linearFootage = 500
    /\ estimateData.linearFootage = 0
    /\ \E x \in LinearFootageTexts : ~IsNumericText(x)
    /\ \A x \in LinearFootageTexts :
          orDefault(parseInt(x), 0) = 0 => ~IsNumericText(x)

(***************************************************************************)
(* C25: the profit margin can never be set to 0 through the form.  An edit *)
(* of the profit-margin field whose text parses to 0, is empty or is       *)
(* non-numeric stores 20, and estimateData.profitMargin # 0 in every       *)
(* reachable state.                                                        *)
(***************************************************************************)
ParsesToZero(text) == ~parseInt(text).isNaN /\ parseInt(text).value = 0

C25_ProfitMarginNeverZero ==
    /\ [](estimateData.profitMargin # 0)
    /\ [][\A x \in ProfitMarginTexts :
              (/\ ParsesToZero(x) \/ ~IsNumericText(x)
               /\ Change("profitMargin", orDefault(parseInt(x), 20)))
                  => estimateData'.profitMargin = 20]_vars

\* a job was estimated at 30 percent and the field then received 0 or a blank:
\* no other text of the field brings it back to 20
C25_Witness ==
    /\ Len(estimateLog) >= 1
    /\ estimateLog[1].input.profitMargin = 30
    /\ estimateData.profitMargin = 20
    /\ \E x \in ProfitMarginTexts : ParsesToZero(x)
    /\ \A x \in ProfitMarginTexts :
          orDefault(parseInt(x), 20) = 20 => (ParsesToZero(x) \/ ~IsNumericText(x))

(***************************************************************************)
(* C24: whenever an estimate is displayed, the profit percentage and the   *)
(* round-trip miles printed beside the profit and fuel amounts are the     *)
(* values those amounts were computed from: profit = subtotal * percent /  *)
(* 100 and fuel cost = miles / 15 * 4.50, after any sequence of edits and  *)
(* generateEstimate calls.  Amounts are compared before rounding to cents, *)
(* with the denominators cleared.                                          *)
(***************************************************************************)
C24_LabelsMatchAmounts ==
    calculatedEstimate # Null =>
        /\ DMulInt(calculatedEstimate.profit, 100) =
              DMulInt(calculatedEstimate.subtotal, profitLabelPercent(estimateData))
        /\ DMulInt(calculatedEstimate.labor.fuelCost, 1500) =
              DInt(fuelLabelMiles(estimateData) * 450)

(***************************************************************************)
(* C26: whenever squareFootage > 0 the estimate charges at least one whole *)
(* bag of sand and one whole bucket of fast-dry additive, however small    *)
(* the area: costs.sand >= 10.00 and costs.fastDry >= 50.00.               *)
(***************************************************************************)
C26_WholeBagAndBucket ==
    (Stored /\ StoredJob.squareFootage > 0) =>
        /\ DLeq(DInt(10), calculatedEstimate.costs.sand)
        /\ DLeq(DInt(50), calculatedEstimate.costs.fastDry)

\* one square foot: 0.0432 lb of sand and 0.0002304 gal of additive
C26_Witness ==
    /\ Stored /\ StoredJob.squareFootage = 1 /\ StoredJob.numberOfCoats = 1
    /\ calculatedEstimate.materials.sand = DLit(432, 10000)
    /\ calculatedEstimate.materials.fastDry = [hi |-> 0, lo |-> 23040]
    /\ calculatedEstimate.costs.sand = DInt(10)
    /\ calculatedEstimate.costs.fastDry = DInt(50)

(***************************************************************************)
(* C27: the labor breakdown (laborHours, laborCost, equipmentCost,         *)
(* fuelCost, totalLabor) depends only on squareFootage, linearFootage and  *)
(* travelDistance: jobs that differ only in numberOfCoats, crackSeverity,  *)
(* oilSpotArea or profitMargin have identical labor breakdowns.  Every job *)
(* is compared with the job that has the same three measurements and the   *)
(* initial value in each of the other four fields, so any two jobs with    *)
(* the same three measurements agree.                                      *)
(***************************************************************************)
SameMeasurements(ed) ==
    [ed EXCEPT !.numberOfCoats = InitialEstimateData.numberOfCoats,
               !.crackSeverity = InitialEstimateData.crackSeverity,
               !.oilSpotArea = InitialEstimateData.oilSpotArea,
               !.profitMargin = InitialEstimateData.profitMargin]

C27_LaborDependsOnMeasurements ==
    Stored =>
        calculatedEstimate.labor = buildEstimate(SameMeasurements(StoredJob), now).labor

\* three coats, severe cracking, oil spots and a 150 percent margin: still the
\* 7.5 hours of 2500 sq ft and 250 ft
C27_Witness ==
    /\ Stored
    /\ StoredJob.squareFootage = 2500 /\ StoredJob.linearFootage = 250
    /\ StoredJob.travelDistance = 7
    /\ StoredJob.numberOfCoats = 3 /\ StoredJob.crackSeverity = "severe"
    /\ StoredJob.oilSpotArea = 176 /\ StoredJob.profitMargin = 150
    /\ SameMeasurements(StoredJob) # StoredJob
    /\ calculatedEstimate.labor.laborHours = DLit(75, 10)
    /\ calculatedEstimate.labor.totalLabor = DLit(13917, 10)

(***************************************************************************)
(* C28: in ProjectManagement, under any interleaving of card selections    *)
(* and updateProjectStatus completions, whenever no status update is in    *)
(* flight a non-null selectedProject has the same status as the entry with *)
(* the same id in projects, and a status update for project P never        *)
(* changes the status held in selectedProject for a different project Q.   *)
(***************************************************************************)
SelectedMatchesList ==
    (Requests("updateProjectStatus") = {} /\ selectedProject # Null) =>
        /\ \E i \in DOMAIN projects : projects[i].id = selectedProject.id
        /\ \A i \in DOMAIN projects :
              projects[i].id = selectedProject.id =>
                  projects[i].status = selectedProject.status

UpdateSparesOtherSelection ==
    \A r \in inflight \ inflight' :
        (/\ r.kind = "updateProjectStatus"
         /\ selectedProject # Null
         /\ selectedProject.id # r.projectId)
        => /\ selectedProject' # Null
           /\ selectedProject'.status = selectedProject.status

C28_SelectedStatusConsistent ==
    /\ []SelectedMatchesList
    /\ [][UpdateSparesOtherSelection]_vars

(***************************************************************************)
(* C29: in ProjectManagement, once every outstanding fetchMilestones       *)
(* request has completed successfully, the milestones held in state are    *)
(* those fetched for the currently selected project, for any order of      *)
(* selections and any order in which the responses arrive; the progress    *)
(* shown for the selected project is then the progress of its milestones.  *)
(***************************************************************************)
C29_MilestonesOfSelected ==
    (/\ Requests("fetchMilestones") = {}
     /\ ~milestoneFetchFailed
     /\ selectedProject # Null)
    => /\ milestones = MilestonesOf(selectedProject.id)
       /\ calculateProgress(selectedProject) =
             progressIn(MilestonesOf(selectedProject.id), selectedProject)

(***************************************************************************)
(* C30: createProject changes local state only on a successful insert.     *)
(* When no user is authenticated no insert is issued; in that case and     *)
(* when the insert fails, projects, isCreatingProject and newProject are   *)
(* unchanged; on success exactly one project, the inserted row, is         *)
(* prepended to projects, the dialog closes and the form is reset.         *)
(***************************************************************************)
LocalUnchanged == UNCHANGED <<projects, isCreatingProject, newProject>>

CreateProjectSteps ==
    /\ \A r \in inflight' \ inflight : r.kind \in {"getUser", "insert"} => LocalUnchanged
    /\ \A r \in inflight \ inflight' :
          /\ r.kind = "getUser" =>
                /\ LocalUnchanged
                /\ dbProjects' = dbProjects
                /\ session = Null => Requests("insert")' = Requests("insert")
          /\ r.kind = "insert" =>
                IF dbProjects' = dbProjects
                THEN LocalUnchanged
                ELSE /\ Len(projects') = Len(projects) + 1
                     /\ Tail(projects') = projects
                     /\ Head(projects').id = Head(dbProjects').id
                     /\ Head(projects').name = r.form.name
                     /\ \A i \in DOMAIN projects : projects[i].id # Head(projects').id
                     /\ isCreatingProject' = FALSE
                     /\ newProject' = EmptyNewProject

C30_CreateOnlyOnSuccess ==
    /\ [](\A r \in Requests("insert") : session # Null /\ r.user = session)
    /\ [][CreateProjectSteps]_vars

\* "Lot A" was created after the list had been fetched
C30_Witness ==
    /\ lastToast = "Project created successfully"
    /\ Len(projects) = 3
    /\ projects[1].name = "Lot A" /\ projects[1].id = 3
    /\ projects[1].status = "pending"
    /\ ~isCreatingProject
    /\ newProject = EmptyNewProject
    /\ Len(dbProjects) = 3

====
